---- MODULE Spec2Model ----
(***************************************************************************)
(* State-machine model of the Flask file-upload backend in src/app.py.     *)
(*                                                                         *)
(* Every table is a function from primary key to row.  Text values         *)
(* (user codes, filenames, paths) are sequences of one-character strings,  *)
(* so that sanitising, path building and SQL LIKE matching are computed    *)
(* character by character; byte payloads are sequences of integers.        *)
(* Python's None is NoStr, NoBytes or None.  Every request handler is one   *)
(* action: its parameters are the request, it changes the tables and it    *)
(* leaves the HTTP response it returned in resp.                           *)
(***************************************************************************)
EXTENDS Integers, Sequences, FiniteSets, TLC

VARIABLES
    user_cv,        \* table user_cv:      id -> [user_code, filename, file_data, uploaded_at]
    user_id_doc,    \* table user_id_doc:  id -> [user_code, filename, file_data, uploaded_at]
    assignments,    \* table assignments:  id -> [lecture_id, title, ..., file_filename, file_data]
    submissions,    \* table submissions:  id -> [assignment_id, user_code, filename, file_data, ...]
    firm_images,    \* table firm_images:  id -> [user_code, file_path, image_data]
    firm_proofs,    \* table firm_proofs:  id -> [user_code, original_filename, file_path, ...]
    jobs,           \* table jobs:         id -> [title, description, file_name, file_data, ...]
    users,          \* table users:        id -> [profile_picture]
    seq,            \* the autoincrement sequence of every integer-keyed table
    images_schema,  \* how the deployed firm_images table was created ("orm" or "sql")
    clock,          \* the server's clock (datetime.utcnow / func.now)
    inflight,       \* slot -> update_submission request that has queried and not yet committed
    uploading,      \* slot -> upload_firm_proof request past its duplicate check, not yet committed
    issued,         \* history: every id that has identified an assignment so far
    resp            \* the response to the last request handled

vars == <<user_cv, user_id_doc, assignments, submissions, firm_images,
          firm_proofs, jobs, users, seq, images_schema, clock, inflight, uploading, issued,
          resp>>

docs_vars == <<user_cv, user_id_doc>>
work_vars == <<assignments, submissions, issued>>
firm_vars == <<firm_images, firm_proofs>>
env_vars  == <<images_schema, clock, inflight, uploading>>
other_vars == <<jobs, users>>

(***************************************************************************)
(* Bounds of the model.                                                    *)
(***************************************************************************)
\* Largest id an autoincrement sequence hands out.
MaxId == 2
\* Largest number of rows the database holds, all tables together.
MaxRows == 2
\* Number of update_submission requests that may be in progress at once.
MaxInflight == 2
\* Latest reading of the server's clock.
MaxClock == 1

(***************************************************************************)
(* Values.                                                                 *)
(***************************************************************************)
\* Python's None, for a text value, for a byte value and for any other value.
\* Text is a sequence of characters and bytes a sequence of 0..255, so each
\* kind has a null of its own that no real value of the kind equals.
NoStr   == <<"None">>
NoBytes == <<-1>>
None    == "None"

\* Python truthiness of a str-or-None and of a bytes-or-None value.
Truthy(s)      == s # NoStr /\ s # <<>>
TruthyBytes(b) == b # NoBytes /\ b # <<>>

U1 == <<"u", "1">>
U2 == <<"u", "2">>
DotDot == <<".", ".">>

NameTxt    == <<"a", ".", "t", "x", "t">>
NamePdf    == <<"b", ".", "p", "d", "f">>
NameUnsafe == <<"?", "?">>

B1 == <<1>>
B2 == <<2>>

\* request.files has no part of that name.
NoFile == [present |-> FALSE]

\* A multipart file part: werkzeug FileStorage (filename, content type, stream).
FilePart(name, mime, data) ==
    [present |-> TRUE, filename |-> name, mimetype |-> mime, data |-> data]

RECURSIVE DropWhile(_, _)
DropWhile(s, S) ==
    IF s # <<>> /\ Head(s) \in S THEN DropWhile(Tail(s), S) ELSE s

RECURSIVE Reverse(_)
Reverse(s) == IF s = <<>> THEN <<>> ELSE Reverse(Tail(s)) \o <<Head(s)>>

\* str.strip(chars)
Strip(s, S) == Reverse(DropWhile(Reverse(DropWhile(s, S)), S))

Whitespace == {" "}
SafeChars ==
    {"a", "b", "c", "d", "e", "f", "g", "i", "j", "m", "p", "t", "u", "x",
     "0", "1", "2", "3", "4", "5", "6", "7", "8", "9", "_", ".", "-"}

\* "_".join(s.split()): runs of whitespace become one "_", none at the ends.
RECURSIVE JoinWords(_)
JoinWords(s) ==
    LET t == DropWhile(s, Whitespace) IN
    IF t = <<>> THEN <<>>
    ELSE IF Head(t) \in Whitespace THEN <<>>
    ELSE LET rest == Tail(t) IN
         IF rest # <<>> /\ Head(rest) \in Whitespace
         THEN LET more == JoinWords(rest) IN
              IF more = <<>> THEN <<Head(t)>> ELSE <<Head(t), "_">> \o more
         ELSE <<Head(t)>> \o JoinWords(rest)

\* werkzeug.utils.secure_filename: path separators become spaces, words are
\* joined by "_", every character outside [A-Za-z0-9_.-] is dropped, and
\* leading and trailing "." and "_" are stripped.  The result may be empty.
secure_filename(name) ==
    LET nosep  == [i \in 1..Len(name) |-> IF name[i] = "/" THEN " " ELSE name[i]]
        joined == JoinWords(nosep)
        kept   == SelectSeq(joined, LAMBDA c : c \in SafeChars)
    IN  Strip(kept, {".", "_"})

\* safe_filename(file_obj): "" for a falsy FileStorage (one with an empty
\* filename), else secure_filename of its filename.
safe_filename(f) ==
    IF ~Truthy(f.filename) THEN <<>> ELSE secure_filename(f.filename)

\* The extension of a name: the text after its last ".", NoStr when the name
\* has no "." after its first character.
RECURSIVE LastDot(_, _)
LastDot(s, i) ==
    IF i <= 1 THEN 0 ELSE IF s[i] = "." THEN i ELSE LastDot(s, i - 1)

Extension(name) ==
    LET d == LastDot(name, Len(name)) IN
    IF d = 0 THEN NoStr ELSE SubSeq(name, d + 1, Len(name))

\* mimetypes.guess_type(name)[0]
guess_type(name) ==
    LET e == Extension(name) IN
    IF e = <<"t", "x", "t">> THEN "text/plain"
    ELSE IF e = <<"p", "d", "f">> THEN "application/pdf"
    ELSE IF e = <<"j", "p", "g">> THEN "image/jpeg"
    ELSE None

\* guess_mimetype(filename, fallback=None): the last of the three module-level
\* definitions, the one every handler calls.
guess_mimetype(filename) ==
    IF ~Truthy(filename) THEN "application/octet-stream"
    ELSE IF guess_type(filename) # None THEN guess_type(filename)
    ELSE "application/octet-stream"

\* str(n) of a natural number.
Digit == <<"0", "1", "2", "3", "4", "5", "6", "7", "8", "9">>

RECURSIVE DecStr(_)
DecStr(n) ==
    IF n < 10 THEN <<Digit[n + 1]>> ELSE DecStr(n \div 10) \o <<Digit[(n % 10) + 1]>>

\* A table without the row of key k.
Without(t, k) == [i \in DOMAIN t \ {k} |-> t[i]]

\* A table with row r stored under key k.
With(t, k, r) == [i \in DOMAIN t \cup {k} |-> IF i = k THEN r ELSE t[i]]

\* Number of rows in the database.
RowCount ==
    Cardinality(DOMAIN user_cv) + Cardinality(DOMAIN user_id_doc)
    + Cardinality(DOMAIN assignments) + Cardinality(DOMAIN submissions)
    + Cardinality(DOMAIN firm_images) + Cardinality(DOMAIN firm_proofs)
    + Cardinality(DOMAIN jobs)

\* The model's room for n more rows.
Room(n) == RowCount + n <= MaxRows

(***************************************************************************)
(* Responses.  A JSON response carries a status and the fields of its      *)
(* body; a send_file response carries the bytes, the mime type and the     *)
(* disposition.                                                            *)
(***************************************************************************)
NoUrl == <<>>

Response(op, status, error) ==
    [op |-> op, status |-> status, error |-> error,
     id |-> 0, file_url |-> NoUrl, file_paths |-> <<>>,
     rows |-> <<>>, data |-> NoBytes, mimetype |-> None,
     as_attachment |-> FALSE, download_name |-> NoStr]

\* jsonify({"message": ..., "id": id}), status
JsonId(op, status, id) ==
    [Response(op, status, None) EXCEPT !.id = id]

\* send_file(BytesIO(data), mimetype=..., as_attachment=..., download_name=...)
\* BytesIO(None) is an empty stream; an attachment without a download name is
\* a TypeError, which no handler catches: Flask answers 500.
send_file(op, data, mimetype, as_attachment, download_name) ==
    IF as_attachment /\ download_name = NoStr
    THEN Response(op, 500, "TypeError")
    ELSE [Response(op, 200, None) EXCEPT
            !.data = IF data = NoBytes THEN <<>> ELSE data,
            !.mimetype = mimetype,
            !.as_attachment = as_attachment,
            !.download_name = download_name]

(***************************************************************************)
(* Initial state: db.create_all() on an empty database.                    *)
(***************************************************************************)
Init ==
    /\ user_cv = <<>>
    /\ user_id_doc = <<>>
    /\ assignments = <<>>
    /\ submissions = <<>>
    /\ firm_images = <<>>
    /\ firm_proofs = <<>>
    /\ jobs = <<>>
    /\ users = (U1 :> [profile_picture |-> NoBytes])
    /\ seq = [user_cv |-> 0, user_id_doc |-> 0, submissions |-> 0,
              firm_images |-> 0, firm_proofs |-> 0, jobs |-> 0]
    /\ images_schema \in {"orm", "sql"}
    /\ clock = 0
    /\ inflight = <<>>
    /\ uploading = <<>>
    /\ issued = {}
    /\ resp = Response("start", 0, None)

\* Time passes between two requests.
Tick ==
    /\ clock < MaxClock
    /\ clock' = clock + 1
    /\ UNCHANGED <<docs_vars, work_vars, firm_vars, other_vars, seq, images_schema,
                   inflight, uploading, resp>>

(***************************************************************************)
(* Transactions                                                            *)
(***************************************************************************)
\* A transaction that kept what it wrote although it never committed.
RollbackKeepingWrites(table, written) == written

\* What a transaction that ends without a commit leaves of a table it wrote
\* to: the table as it was, the written rows discarded.  The except branches
\* call db.session.rollback(); upload_images drops its psycopg2 connection,
\* opened without autocommit, with the transaction still open.
rollback(table, written) == table

(***************************************************************************)
(* UserCV                                                                  *)
(***************************************************************************)
\* serve_cv as it would be with the "or not doc.file_data" test that the
\* submission and assignment handlers make.
ServeCvRefusingEmpty(cv_id) ==
    IF cv_id \notin DOMAIN user_cv \/ ~TruthyBytes(user_cv[cv_id].file_data)
    THEN Response("serve_cv", 404, "CV not found")
    ELSE send_file("serve_cv", user_cv[cv_id].file_data,
                   guess_mimetype(user_cv[cv_id].filename), TRUE,
                   user_cv[cv_id].filename)

\* GET /serve-cv/<cv_id>
ServeCvResponse(cv_id) ==
    IF cv_id \notin DOMAIN user_cv
    THEN Response("serve_cv", 404, "CV not found")
    ELSE LET doc == user_cv[cv_id] IN
         send_file("serve_cv", doc.file_data, guess_mimetype(doc.filename),
                   TRUE, doc.filename)

serve_cv(cv_id) ==
    /\ resp' = ServeCvResponse(cv_id)
    /\ UNCHANGED <<docs_vars, work_vars, firm_vars, seq, env_vars, other_vars>>

\* GET /view-cv/<cv_id>
ViewCvResponse(cv_id) ==
    IF cv_id \notin DOMAIN user_cv
    THEN Response("view_cv", 404, "CV not found")
    ELSE LET doc == user_cv[cv_id] IN
         send_file("view_cv", doc.file_data, guess_mimetype(doc.filename),
                   FALSE, doc.filename)

view_cv(cv_id) ==
    /\ resp' = ViewCvResponse(cv_id)
    /\ UNCHANGED <<docs_vars, work_vars, firm_vars, seq, env_vars, other_vars>>

\* POST /cv
upload_cv(user_code, file) ==
    /\ IF ~Truthy(user_code)
       THEN /\ resp' = Response("upload_cv", 400, "user_code is required")
            /\ UNCHANGED <<user_cv, seq>>
       ELSE IF ~file.present
       THEN /\ resp' = Response("upload_cv", 400, "No file uploaded")
            /\ UNCHANGED <<user_cv, seq>>
       ELSE IF file.filename = <<>>
       THEN /\ resp' = Response("upload_cv", 400, "Filename missing")
            /\ UNCHANGED <<user_cv, seq>>
       ELSE LET id == seq.user_cv + 1
                cv == [user_code |-> user_code,
                       filename |-> secure_filename(file.filename),
                       file_path |-> NoStr,
                       file_data |-> file.data,
                       uploaded_at |-> clock]
            IN  /\ id <= MaxId
                /\ Room(1)
                /\ user_cv' = With(user_cv, id, cv)
                /\ seq' = [seq EXCEPT !.user_cv = id]
                /\ resp' = JsonId("upload_cv", 201, id)
    /\ UNCHANGED <<user_id_doc, work_vars, firm_vars, env_vars, other_vars>>

\* POST /cv when the body of the try raises: at file.read() (stage "read")
\* or at db.session.commit() once the INSERT has been flushed ("commit").
upload_cv_error(user_code, file, stage) ==
    /\ Truthy(user_code)
    /\ file.present
    /\ file.filename # <<>>
    /\ LET id == seq.user_cv + 1
           cv == [user_code |-> user_code,
                  filename |-> secure_filename(file.filename),
                  file_path |-> NoStr,
                  file_data |-> file.data,
                  uploaded_at |-> clock]
       IN  IF stage = "read"
           THEN /\ user_cv' = rollback(user_cv, user_cv)
                /\ UNCHANGED seq
           ELSE /\ id <= MaxId
                /\ Room(1)
                /\ user_cv' = rollback(user_cv, With(user_cv, id, cv))
                /\ seq' = [seq EXCEPT !.user_cv = id]
    /\ resp' = Response("upload_cv", 500, "Internal server error")
    /\ UNCHANGED <<user_id_doc, work_vars, firm_vars, env_vars, other_vars>>

\* PUT /cv/<cv_id>
update_cv(cv_id, file) ==
    /\ IF cv_id \notin DOMAIN user_cv
       THEN /\ resp' = Response("update_cv", 404, "CV not found")
            /\ UNCHANGED user_cv
       ELSE IF ~file.present
       THEN /\ resp' = Response("update_cv", 400, "No file uploaded")
            /\ UNCHANGED user_cv
       ELSE IF file.filename = <<>>
       THEN /\ resp' = Response("update_cv", 400, "Filename missing")
            /\ UNCHANGED user_cv
       ELSE /\ user_cv' = [user_cv EXCEPT
                              ![cv_id].filename = secure_filename(file.filename),
                              ![cv_id].file_data = file.data]
            /\ resp' = JsonId("update_cv", 200, cv_id)
    /\ UNCHANGED <<user_id_doc, work_vars, firm_vars, seq, env_vars, other_vars>>

\* PUT /cv/<cv_id> when the body of the try raises, at file.read() or at
\* db.session.commit() once the UPDATE has been flushed.
update_cv_error(cv_id, file, stage) ==
    /\ cv_id \in DOMAIN user_cv
    /\ file.present
    /\ file.filename # <<>>
    /\ user_cv' = rollback(user_cv,
                     IF stage = "read" THEN user_cv
                     ELSE [user_cv EXCEPT
                             ![cv_id].filename = secure_filename(file.filename),
                             ![cv_id].file_data = file.data])
    /\ resp' = Response("update_cv", 500, "Internal server error")
    /\ UNCHANGED <<user_id_doc, work_vars, firm_vars, seq, env_vars, other_vars>>

\* delete_cv as it would be if it emptied the file and kept the row.
DeleteCvKeepingRow(cv_id) ==
    /\ IF cv_id \notin DOMAIN user_cv
       THEN /\ resp' = Response("delete_cv", 404, "CV not found")
            /\ UNCHANGED user_cv
       ELSE /\ user_cv' = [user_cv EXCEPT ![cv_id].file_data = NoBytes]
            /\ resp' = Response("delete_cv", 200, None)
    /\ UNCHANGED <<user_id_doc, work_vars, firm_vars, seq, env_vars, other_vars>>

\* DELETE /cv/<cv_id>
delete_cv(cv_id) ==
    /\ IF cv_id \notin DOMAIN user_cv
       THEN /\ resp' = Response("delete_cv", 404, "CV not found")
            /\ UNCHANGED user_cv
       ELSE /\ user_cv' = Without(user_cv, cv_id)
            /\ resp' = Response("delete_cv", 200, None)
    /\ UNCHANGED <<user_id_doc, work_vars, firm_vars, seq, env_vars, other_vars>>

(***************************************************************************)
(* UserIDDoc                                                               *)
(***************************************************************************)
\* GET /serve-id/<id_id>
ServeIdResponse(id_id) ==
    IF id_id \notin DOMAIN user_id_doc
    THEN Response("serve_id", 404, "ID not found")
    ELSE LET doc == user_id_doc[id_id] IN
         send_file("serve_id", doc.file_data, guess_mimetype(doc.filename),
                   TRUE, doc.filename)

serve_id(id_id) ==
    /\ resp' = ServeIdResponse(id_id)
    /\ UNCHANGED <<docs_vars, work_vars, firm_vars, seq, env_vars, other_vars>>

\* GET /view-id/<id_id>
ViewIdResponse(id_id) ==
    IF id_id \notin DOMAIN user_id_doc
    THEN Response("view_id", 404, "ID not found")
    ELSE LET doc == user_id_doc[id_id] IN
         send_file("view_id", doc.file_data, guess_mimetype(doc.filename),
                   FALSE, doc.filename)

view_id(id_id) ==
    /\ resp' = ViewIdResponse(id_id)
    /\ UNCHANGED <<docs_vars, work_vars, firm_vars, seq, env_vars, other_vars>>

\* POST /id-doc
upload_id_doc(user_code, file) ==
    /\ IF ~Truthy(user_code)
       THEN /\ resp' = Response("upload_id_doc", 400, "user_code is required")
            /\ UNCHANGED <<user_id_doc, seq>>
       ELSE IF ~file.present
       THEN /\ resp' = Response("upload_id_doc", 400, "No file uploaded")
            /\ UNCHANGED <<user_id_doc, seq>>
       ELSE IF file.filename = <<>>
       THEN /\ resp' = Response("upload_id_doc", 400, "Filename missing")
            /\ UNCHANGED <<user_id_doc, seq>>
       ELSE LET id == seq.user_id_doc + 1
                id_doc == [user_code |-> user_code,
                           filename |-> secure_filename(file.filename),
                           file_path |-> NoStr,
                           file_data |-> file.data,
                           uploaded_at |-> clock]
            IN  /\ id <= MaxId
                /\ Room(1)
                /\ user_id_doc' = With(user_id_doc, id, id_doc)
                /\ seq' = [seq EXCEPT !.user_id_doc = id]
                /\ resp' = JsonId("upload_id_doc", 201, id)
    /\ UNCHANGED <<user_cv, work_vars, firm_vars, env_vars, other_vars>>

\* PUT /id-doc/<id_id>
update_id_doc(id_id, file) ==
    /\ IF id_id \notin DOMAIN user_id_doc
       THEN /\ resp' = Response("update_id_doc", 404, "ID not found")
            /\ UNCHANGED user_id_doc
       ELSE IF ~file.present
       THEN /\ resp' = Response("update_id_doc", 400, "No file uploaded")
            /\ UNCHANGED user_id_doc
       ELSE IF file.filename = <<>>
       THEN /\ resp' = Response("update_id_doc", 400, "Filename missing")
            /\ UNCHANGED user_id_doc
       ELSE /\ user_id_doc' = [user_id_doc EXCEPT
                                  ![id_id].filename = secure_filename(file.filename),
                                  ![id_id].file_data = file.data]
            /\ resp' = JsonId("update_id_doc", 200, id_id)
    /\ UNCHANGED <<user_cv, work_vars, firm_vars, seq, env_vars, other_vars>>

\* DELETE /id-doc/<id_id>
delete_id_doc(id_id) ==
    /\ IF id_id \notin DOMAIN user_id_doc
       THEN /\ resp' = Response("delete_id_doc", 404, "ID not found")
            /\ UNCHANGED user_id_doc
       ELSE /\ user_id_doc' = Without(user_id_doc, id_id)
            /\ resp' = Response("delete_id_doc", 200, None)
    /\ UNCHANGED <<user_cv, work_vars, firm_vars, seq, env_vars, other_vars>>

(***************************************************************************)
(* Assignments                                                             *)
(***************************************************************************)
AssignmentFileUrl(id) == <<"/serve-assignment-file/", id>>
SubmissionFileUrl(id) == <<"/serve-submission-file/", id>>

\* POST /api/assignments.  form holds id, lecture_id, title, deadline_iso and
\* description, each NoStr when the request has no such field.
create_assignment(form, file) ==
    /\ IF ~Truthy(form.lecture_id) \/ ~Truthy(form.title) \/ ~Truthy(form.deadline_iso)
       THEN /\ resp' = Response("create_assignment", 400,
                                "lecture_id, title, deadline_iso required")
            /\ UNCHANGED <<assignments, issued>>
       ELSE LET file_filename == IF file.present THEN safe_filename(file) ELSE NoStr
                file_data     == IF file.present THEN file.data ELSE NoBytes
                assignment_id == IF Truthy(form.id) THEN form.id ELSE DecStr(clock)
                assignment == [lecture_id |-> form.lecture_id,
                               title |-> form.title,
                               description |-> form.description,
                               deadline_iso |-> form.deadline_iso,
                               status |-> "open",
                               file_filename |-> file_filename,
                               file_data |-> file_data,
                               created_at |-> clock]
            IN  IF assignment_id \in DOMAIN assignments
                THEN \* primary key violation: rollback
                     /\ resp' = Response("create_assignment", 500, "IntegrityError")
                     /\ UNCHANGED <<assignments, issued>>
                ELSE /\ Room(1)
                     /\ assignments' = With(assignments, assignment_id, assignment)
                     /\ issued' = issued \cup {assignment_id}
                     /\ resp' = [JsonId("create_assignment", 201, assignment_id)
                                   EXCEPT !.file_url =
                                       IF Truthy(file_filename)
                                       THEN AssignmentFileUrl(assignment_id)
                                       ELSE NoUrl]
    /\ UNCHANGED <<submissions, docs_vars, firm_vars, seq, env_vars, other_vars>>

\* GET /api/assignments?lecture_id=...
ListAssignmentsResponse(lecture_id) ==
    LET listed == {a \in DOMAIN assignments :
                      Truthy(lecture_id) => assignments[a].lecture_id = lecture_id}
    IN  [Response("list_assignments", 200, None) EXCEPT
            !.rows = [a \in listed |->
                        [id |-> a,
                         lecture_id |-> assignments[a].lecture_id,
                         title |-> assignments[a].title,
                         description |-> assignments[a].description,
                         deadline_iso |-> assignments[a].deadline_iso,
                         status |-> assignments[a].status,
                         file_url |-> IF Truthy(assignments[a].file_filename)
                                      THEN AssignmentFileUrl(a) ELSE NoUrl,
                         created_at |-> assignments[a].created_at]]]

list_assignments(lecture_id) ==
    /\ resp' = ListAssignmentsResponse(lecture_id)
    /\ UNCHANGED <<docs_vars, work_vars, firm_vars, seq, env_vars, other_vars>>

\* GET /serve-assignment-file/<assignment_id>
ServeAssignmentFileResponse(assignment_id) ==
    IF assignment_id \notin DOMAIN assignments
    THEN Response("serve_assignment_file", 404, "File not found")
    ELSE LET a == assignments[assignment_id] IN
         IF ~TruthyBytes(a.file_data)
         THEN Response("serve_assignment_file", 404, "File not found")
         ELSE send_file("serve_assignment_file", a.file_data,
                        guess_mimetype(a.file_filename), TRUE, a.file_filename)

serve_assignment_file(assignment_id) ==
    /\ resp' = ServeAssignmentFileResponse(assignment_id)
    /\ UNCHANGED <<docs_vars, work_vars, firm_vars, seq, env_vars, other_vars>>

\* update_assignment as it would be if a request without a file cleared the
\* stored file.
UpdateAssignmentClearingFile(assignment_id, form, file) ==
    /\ IF assignment_id \notin DOMAIN assignments
       THEN /\ resp' = Response("update_assignment", 404, "Assignment not found")
            /\ UNCHANGED assignments
       ELSE LET old == assignments[assignment_id]
                takes_file == /\ file.present
                              /\ Truthy(file.filename)
                              /\ Strip(file.filename, Whitespace) # <<>>
                new == [old EXCEPT
                          !.title = IF Truthy(form.title) THEN form.title ELSE @,
                          !.description =
                              IF Truthy(form.description) THEN form.description ELSE @,
                          !.deadline_iso =
                              IF Truthy(form.deadline_iso) THEN form.deadline_iso ELSE @,
                          !.status = IF form.status # None /\ form.status # ""
                                     THEN form.status ELSE @,
                          !.file_filename =
                              IF takes_file THEN secure_filename(file.filename) ELSE NoStr,
                          !.file_data = IF takes_file THEN file.data ELSE NoBytes]
            IN  /\ assignments' = [assignments EXCEPT ![assignment_id] = new]
                /\ resp' = [JsonId("update_assignment", 200, assignment_id)
                              EXCEPT !.file_url =
                                  IF Truthy(new.file_filename)
                                  THEN AssignmentFileUrl(assignment_id)
                                  ELSE NoUrl]
    /\ UNCHANGED <<submissions, issued, docs_vars, firm_vars, seq, env_vars, other_vars>>

\* PUT /api/assignments/<assignment_id>.  form holds title, description,
\* deadline_iso and status.
update_assignment(assignment_id, form, file) ==
    /\ IF assignment_id \notin DOMAIN assignments
       THEN /\ resp' = Response("update_assignment", 404, "Assignment not found")
            /\ UNCHANGED assignments
       ELSE LET old == assignments[assignment_id]
                takes_file == /\ file.present
                              /\ Truthy(file.filename)
                              /\ Strip(file.filename, Whitespace) # <<>>
                new == [old EXCEPT
                          !.title = IF Truthy(form.title) THEN form.title ELSE @,
                          !.description =
                              IF Truthy(form.description) THEN form.description ELSE @,
                          !.deadline_iso =
                              IF Truthy(form.deadline_iso) THEN form.deadline_iso ELSE @,
                          !.status = IF form.status # None /\ form.status # ""
                                     THEN form.status ELSE @,
                          !.file_filename =
                              IF takes_file THEN secure_filename(file.filename) ELSE @,
                          !.file_data = IF takes_file THEN file.data ELSE @]
            IN  /\ assignments' = [assignments EXCEPT ![assignment_id] = new]
                /\ resp' = [JsonId("update_assignment", 200, assignment_id)
                              EXCEPT !.file_url =
                                  IF Truthy(new.file_filename)
                                  THEN AssignmentFileUrl(assignment_id)
                                  ELSE NoUrl]
    /\ UNCHANGED <<submissions, issued, docs_vars, firm_vars, seq, env_vars, other_vars>>

\* DELETE /api/assignments/<assignment_id>
delete_assignment(assignment_id) ==
    /\ IF assignment_id \notin DOMAIN assignments
       THEN /\ resp' = Response("delete_assignment", 404, "Assignment not found")
            /\ UNCHANGED assignments
       ELSE /\ assignments' = Without(assignments, assignment_id)
            /\ resp' = Response("delete_assignment", 200, None)
    /\ UNCHANGED <<submissions, issued, docs_vars, firm_vars, seq, env_vars, other_vars>>

(***************************************************************************)
(* Submissions                                                             *)
(***************************************************************************)
\* Submission.query.filter_by(assignment_id=..., user_code=...)
SubmissionsOf(assignment_id, user_code) ==
    {i \in DOMAIN submissions :
        /\ submissions[i].assignment_id = assignment_id
        /\ submissions[i].user_code = user_code}

\* A query that never finds the student's row.
FirstSubmissionMissing(assignment_id, user_code) == {0}

\* .first(): a row of the query, in no stated order; 0 stands for no row.
FirstSubmission(assignment_id, user_code) ==
    IF SubmissionsOf(assignment_id, user_code) = {}
    THEN {0}
    ELSE SubmissionsOf(assignment_id, user_code)

\* The Submission object the handler holds before it commits: the row it
\* loaded (snap) or a new one, with the request's fields assigned.
SubmissionObject(r) ==
    LET filename == IF r.file.present THEN safe_filename(r.file) ELSE NoStr
        data     == IF r.file.present THEN r.file.data ELSE NoBytes
        sub == IF r.found = 0
               THEN [assignment_id |-> r.assignment_id, user_code |-> r.user_code,
                     filename |-> NoStr, file_data |-> NoBytes,
                     description |-> NoStr, updated_at |-> clock]
               ELSE r.snap
    IN  [sub EXCEPT
            !.filename = IF Truthy(filename) THEN filename ELSE @,
            !.file_data = IF Truthy(filename) THEN data ELSE @,
            !.description = IF r.description # NoStr THEN r.description ELSE @,
            !.updated_at = clock]

\* db.session.add(sub); db.session.commit() and the response, for a request r
\* that found row r.found (0: none) in the state r.snap.  The UPDATE sets the
\* columns whose value differs from the loaded one; a row that is gone by
\* then makes the commit fail.
CommitSubmission(r) ==
    LET sub == SubmissionObject(r)
    IN  IF r.found = 0
        THEN LET id == seq.submissions + 1 IN
             /\ id <= MaxId
             /\ Room(1)
             /\ submissions' = With(submissions, id, sub)
             /\ seq' = [seq EXCEPT !.submissions = id]
             /\ resp' = [JsonId("update_submission", 200, id) EXCEPT
                           !.file_url = IF Truthy(sub.filename)
                                        THEN SubmissionFileUrl(id) ELSE NoUrl]
        ELSE IF r.found \notin DOMAIN submissions
        THEN /\ resp' = Response("update_submission", 500, "StaleDataError")
             /\ UNCHANGED <<submissions, seq>>
        ELSE LET cur == submissions[r.found]
                 row == [cur EXCEPT
                           !.filename = IF sub.filename # r.snap.filename
                                        THEN sub.filename ELSE @,
                           !.file_data = IF sub.file_data # r.snap.file_data
                                         THEN sub.file_data ELSE @,
                           !.description = IF sub.description # r.snap.description
                                           THEN sub.description ELSE @,
                           !.updated_at = clock]
             IN  /\ submissions' = [submissions EXCEPT ![r.found] = row]
                 /\ UNCHANGED seq
                 /\ resp' = [JsonId("update_submission", 200, r.found) EXCEPT
                               !.file_url = IF Truthy(row.filename)
                                            THEN SubmissionFileUrl(r.found)
                                            ELSE NoUrl]

\* PUT /api/assignments/<assignment_id>/submissions, handled without any
\* other request in between.
update_submission(assignment_id, user_code, file, description) ==
    /\ IF ~Truthy(user_code)
       THEN /\ resp' = Response("update_submission", 400, "user_code required")
            /\ UNCHANGED <<submissions, seq>>
       ELSE \E found \in FirstSubmission(assignment_id, user_code) :
                CommitSubmission(
                    [assignment_id |-> assignment_id, user_code |-> user_code,
                     file |-> file, description |-> description, found |-> found,
                     snap |-> IF found = 0 THEN <<>> ELSE submissions[found]])
    /\ UNCHANGED <<assignments, issued, docs_vars, firm_vars, env_vars, other_vars>>

\* The same handler when requests overlap: first the query ...
update_submission_query(slot, assignment_id, user_code, file, description) ==
    /\ slot \notin DOMAIN inflight
    /\ Truthy(user_code)
    /\ \E found \in FirstSubmission(assignment_id, user_code) :
          inflight' = With(inflight, slot,
              [assignment_id |-> assignment_id, user_code |-> user_code,
               file |-> file, description |-> description, found |-> found,
               snap |-> IF found = 0 THEN <<>> ELSE submissions[found]])
    /\ UNCHANGED <<docs_vars, work_vars, firm_vars, other_vars, seq, images_schema,
                   clock, uploading, resp>>

\* ... and later the commit.
update_submission_commit(slot) ==
    /\ slot \in DOMAIN inflight
    /\ CommitSubmission(inflight[slot])
    /\ inflight' = Without(inflight, slot)
    /\ UNCHANGED <<assignments, issued, docs_vars, firm_vars, other_vars,
                   images_schema, clock, uploading>>

\* GET /api/assignments/<assignment_id>/submissions
ListSubmissionsResponse(assignment_id) ==
    LET listed == {i \in DOMAIN submissions :
                      submissions[i].assignment_id = assignment_id}
    IN  [Response("list_submissions_for_assignment", 200, None) EXCEPT
            !.rows = [i \in listed |->
                        [id |-> i,
                         assignment_id |-> submissions[i].assignment_id,
                         user_code |-> submissions[i].user_code,
                         filename |-> submissions[i].filename,
                         file_url |-> IF Truthy(submissions[i].filename)
                                      THEN SubmissionFileUrl(i) ELSE NoUrl,
                         description |-> submissions[i].description,
                         updated_at |-> submissions[i].updated_at]]]

list_submissions_for_assignment(assignment_id) ==
    /\ resp' = ListSubmissionsResponse(assignment_id)
    /\ UNCHANGED <<docs_vars, work_vars, firm_vars, seq, env_vars, other_vars>>

\* GET /serve-submission-file/<submission_id>
ServeSubmissionFileResponse(submission_id) ==
    IF submission_id \notin DOMAIN submissions
    THEN Response("serve_submission_file", 404, "File not found")
    ELSE LET sub == submissions[submission_id] IN
         IF ~TruthyBytes(sub.file_data)
         THEN Response("serve_submission_file", 404, "File not found")
         ELSE send_file("serve_submission_file", sub.file_data,
                        guess_mimetype(sub.filename), TRUE, sub.filename)

serve_submission_file(submission_id) ==
    /\ resp' = ServeSubmissionFileResponse(submission_id)
    /\ UNCHANGED <<docs_vars, work_vars, firm_vars, seq, env_vars, other_vars>>

\* The mime types view_submission shows inline.
viewable_types ==
    {"application/pdf", "image/png", "image/jpeg", "image/jpg", "image/gif",
     "text/plain", "text/html"}

\* GET /view-submission/<submission_id>
ViewSubmissionResponse(submission_id) ==
    IF submission_id \notin DOMAIN submissions
    THEN Response("view_submission", 404, "Submission not found")
    ELSE LET sub == submissions[submission_id]
             mimetype == guess_mimetype(sub.filename)
         IN  IF ~TruthyBytes(sub.file_data)
             THEN Response("view_submission", 404, "Submission not found")
             ELSE send_file("view_submission", sub.file_data, mimetype,
                            mimetype \notin viewable_types, sub.filename)

view_submission(submission_id) ==
    /\ resp' = ViewSubmissionResponse(submission_id)
    /\ UNCHANGED <<docs_vars, work_vars, firm_vars, seq, env_vars, other_vars>>

\* delete_submission as it would be if it did not look at the status.
DeleteSubmissionIgnoringStatus(assignment_id, submission_id) ==
    /\ IF \/ submission_id \notin DOMAIN submissions
          \/ submissions[submission_id].assignment_id # assignment_id
       THEN /\ resp' = Response("delete_submission", 404, "Submission not found")
            /\ UNCHANGED submissions
       ELSE IF assignment_id \notin DOMAIN assignments
       THEN /\ resp' = Response("delete_submission", 404, "Assignment not found")
            /\ UNCHANGED submissions
       ELSE /\ submissions' = Without(submissions, submission_id)
            /\ resp' = Response("delete_submission", 200, None)
    /\ UNCHANGED <<assignments, issued, docs_vars, firm_vars, seq, env_vars, other_vars>>

\* DELETE /api/assignments/<assignment_id>/submissions/<submission_id>
delete_submission(assignment_id, submission_id) ==
    /\ IF \/ submission_id \notin DOMAIN submissions
          \/ submissions[submission_id].assignment_id # assignment_id
       THEN /\ resp' = Response("delete_submission", 404, "Submission not found")
            /\ UNCHANGED submissions
       ELSE IF assignment_id \notin DOMAIN assignments
       THEN /\ resp' = Response("delete_submission", 404, "Assignment not found")
            /\ UNCHANGED submissions
       ELSE IF assignments[assignment_id].status # "open"
       THEN /\ resp' = Response("delete_submission", 400,
                                "Cannot delete submission for a closed assignment")
            /\ UNCHANGED submissions
       ELSE /\ submissions' = Without(submissions, submission_id)
            /\ resp' = Response("delete_submission", 200, None)
    /\ UNCHANGED <<assignments, issued, docs_vars, firm_vars, seq, env_vars, other_vars>>

(***************************************************************************)
(* Firm images (raw SQL through psycopg2)                                  *)
(***************************************************************************)
\* SQL: s LIKE p.  "%" matches any text, "_" any one character and a
\* backslash makes the next character literal.
RECURSIVE Like(_, _)
Like(s, p) ==
    IF p = <<>> THEN s = <<>>
    ELSE IF Head(p) = "%"
    THEN Like(s, Tail(p)) \/ (s # <<>> /\ Like(Tail(s), p))
    ELSE IF Head(p) = "\\"
    THEN /\ Len(p) >= 2
         /\ s # <<>>
         /\ Head(s) = p[2]
         /\ Like(Tail(s), Tail(Tail(p)))
    ELSE /\ s # <<>>
         /\ (Head(p) = "_" \/ Head(p) = Head(s))
         /\ Like(Tail(s), Tail(p))

\* A LIKE pattern that ends in its escape character is an SQL error.
RECURSIVE BadPattern(_)
BadPattern(p) ==
    IF p = <<>> THEN FALSE
    ELSE IF Head(p) = "\\" THEN Len(p) < 2 \/ BadPattern(Tail(Tail(p)))
    ELSE BadPattern(Tail(p))

\* os.path.basename
RECURSIVE LastSlash(_, _)
LastSlash(s, i) ==
    IF i = 0 THEN 0 ELSE IF s[i] = "/" THEN i ELSE LastSlash(s, i - 1)

basename(path) == SubSeq(path, LastSlash(path, Len(path)) + 1, Len(path))

\* f"wil-firm-pics/{user_code}/image_{index}.jpg"
ImagePath(user_code, index) ==
    <<"w", "i", "l", "-", "f", "i", "r", "m", "-", "p", "i", "c", "s", "/">>
        \o user_code \o <<"/", "i", "m", "a", "g", "e", "_">>
        \o DecStr(index) \o <<".", "j", "p", "g">>

\* f"{base_url}/serve-image/{user_code}/{os.path.basename(file_path)}",
\* without the host.
ImageUrl(user_code, file_path) ==
    <<"/", "s", "e", "r", "v", "e", "-", "i", "m", "a", "g", "e", "/">>
        \o user_code \o <<"/">> \o basename(file_path)

\* POST /upload-images.  images is request.files.getlist('images').  The
\* INSERT names no filename: a table created from the FirmImage model
\* (filename NOT NULL) refuses it, and nothing is committed.
upload_images(user_code, images) ==
    /\ IF ~Truthy(user_code) \/ images = <<>>
       THEN /\ resp' = Response("upload_images", 400, "Missing user_code or images")
            /\ UNCHANGED <<firm_images, seq>>
       ELSE IF images_schema = "orm"
       THEN /\ resp' = Response("upload_images", 500, "NotNullViolation")
            /\ UNCHANGED <<firm_images, seq>>
       ELSE LET n == Len(images)
                base == seq.firm_images
                records == [index \in 1..n |->
                              [user_code |-> user_code,
                               file_path |-> ImagePath(user_code, index),
                               filename |-> NoStr,
                               image_data |-> images[index].data,
                               uploaded_at |-> clock]]
            IN  /\ base + n <= MaxId
                /\ Room(n)
                /\ firm_images' =
                      [i \in DOMAIN firm_images \cup (base + 1 .. base + n) |->
                          IF i \in DOMAIN firm_images
                          THEN firm_images[i] ELSE records[i - base]]
                /\ seq' = [seq EXCEPT !.firm_images = base + n]
                /\ resp' = [Response("upload_images", 200, None) EXCEPT
                              !.file_paths = [index \in 1..n |-> records[index].file_path]]
    /\ UNCHANGED <<firm_proofs, docs_vars, work_vars, env_vars, other_vars>>

\* POST /upload-images when the body of the try raises while the INSERT
\* number fail_at of executemany runs, or at conn.commit() when fail_at is
\* one more than the number of images.  The rows inserted until then are in
\* the open transaction and have taken their ids from the sequence.
upload_images_error(user_code, images, fail_at) ==
    /\ Truthy(user_code)
    /\ images # <<>>
    /\ fail_at \in 1 .. Len(images) + 1
    /\ LET n == fail_at - 1
           base == seq.firm_images
           records == [index \in 1..n |->
                         [user_code |-> user_code,
                          file_path |-> ImagePath(user_code, index),
                          filename |-> NoStr,
                          image_data |-> images[index].data,
                          uploaded_at |-> clock]]
           written == [i \in DOMAIN firm_images \cup (base + 1 .. base + n) |->
                          IF i \in DOMAIN firm_images
                          THEN firm_images[i] ELSE records[i - base]]
       IN  /\ base + n <= MaxId
           /\ Room(n)
           /\ firm_images' = rollback(firm_images, written)
           /\ seq' = [seq EXCEPT !.firm_images = base + n]
    /\ resp' = Response("upload_images", 500, "Exception")
    /\ UNCHANGED <<firm_proofs, docs_vars, work_vars, env_vars, other_vars>>

\* GET /get-images/<user_code>
GetImagesResponse(user_code) ==
    LET mine == {i \in DOMAIN firm_images : firm_images[i].user_code = user_code}
    IN  [Response("get_images", 200, None) EXCEPT
            !.rows = [i \in mine |-> ImageUrl(user_code, firm_images[i].file_path)]]

get_images(user_code) ==
    /\ resp' = GetImagesResponse(user_code)
    /\ UNCHANGED <<docs_vars, work_vars, firm_vars, seq, env_vars, other_vars>>

\* The rows of the query without its user_code condition.
ImageRowsOfAnyOwner(user_code, filename) ==
    {i \in DOMAIN firm_images :
        Like(firm_images[i].file_path, <<"%">> \o filename)}

\* The rows of: SELECT image_data FROM firm_images
\*              WHERE user_code = %s AND file_path LIKE %s
ImageRows(user_code, filename) ==
    {i \in DOMAIN firm_images :
        /\ firm_images[i].user_code = user_code
        /\ Like(firm_images[i].file_path, <<"%">> \o filename)}

\* GET /serve-image/<user_code>/<filename>: the responses the handler may
\* give.  LIMIT 1 without ORDER BY returns any one of the matching rows.
ServeImageResponses(user_code, filename) ==
    IF BadPattern(<<"%">> \o filename)
    THEN {Response("serve_image", 500, "InvalidEscapeSequence")}
    ELSE IF ImageRows(user_code, filename) = {}
    THEN {Response("serve_image", 404, "Image not found")}
    ELSE {send_file("serve_image", firm_images[i].image_data,
                    "image/jpeg", FALSE, NoStr) :
             i \in ImageRows(user_code, filename)}

serve_image(user_code, filename) ==
    /\ resp' \in ServeImageResponses(user_code, filename)
    /\ UNCHANGED <<docs_vars, work_vars, firm_vars, seq, env_vars, other_vars>>

(***************************************************************************)
(* Firm proofs                                                             *)
(***************************************************************************)
FirmProofUrl(id) == <<"/serve-firm-proof/", id>>

\* The query as it would be if it never found a proof.
ProofsOfNobody(user_code) == {}

\* FirmProof.query.filter_by(user_code=...)
ProofsOf(user_code) ==
    {i \in DOMAIN firm_proofs : firm_proofs[i].user_code = user_code}

\* The metadata both upload_firm_proof and get_firm_proof return.
ProofMeta(id, proof) ==
    [id |-> id,
     user_code |-> proof.user_code,
     original_filename |-> proof.original_filename,
     filename |-> proof.file_path,
     mime_type |-> proof.mime_type,
     file_url |-> FirmProofUrl(id),
     uploaded_at |-> proof.uploaded_at]

\* POST /firm-proof
upload_firm_proof(user_code, file) ==
    /\ IF ~Truthy(user_code)
       THEN /\ resp' = Response("upload_firm_proof", 400, "user_code is required")
            /\ UNCHANGED <<firm_proofs, seq>>
       ELSE IF ~file.present
       THEN /\ resp' = Response("upload_firm_proof", 400, "No file uploaded")
            /\ UNCHANGED <<firm_proofs, seq>>
       ELSE IF Strip(file.filename, Whitespace) = <<>>
       THEN /\ resp' = Response("upload_firm_proof", 400, "Filename missing")
            /\ UNCHANGED <<firm_proofs, seq>>
       ELSE IF ProofsOf(user_code) # {}
       THEN /\ resp' = Response("upload_firm_proof", 400,
                                "Proof already uploaded for this firm")
            /\ UNCHANGED <<firm_proofs, seq>>
       ELSE LET id == seq.firm_proofs + 1
                proof == [user_code |-> user_code,
                          original_filename |-> file.filename,
                          file_path |-> secure_filename(file.filename),
                          mime_type |-> IF file.mimetype # ""
                                        THEN file.mimetype
                                        ELSE guess_mimetype(file.filename),
                          file_data |-> file.data,
                          uploaded_at |-> clock]
            IN  /\ id <= MaxId
                /\ Room(1)
                /\ firm_proofs' = With(firm_proofs, id, proof)
                /\ seq' = [seq EXCEPT !.firm_proofs = id]
                /\ resp' = [JsonId("upload_firm_proof", 201, id) EXCEPT
                              !.file_url = FirmProofUrl(id),
                              !.rows = (id :> ProofMeta(id, proof))]
    /\ UNCHANGED <<firm_images, docs_vars, work_vars, env_vars, other_vars>>

\* POST /firm-proof when the body of the try raises after the duplicate
\* check: at file.read() or at db.session.commit().
upload_firm_proof_error(user_code, file, stage) ==
    /\ Truthy(user_code)
    /\ file.present
    /\ Strip(file.filename, Whitespace) # <<>>
    /\ ProofsOf(user_code) = {}
    /\ LET id == seq.firm_proofs + 1
           proof == [user_code |-> user_code,
                     original_filename |-> file.filename,
                     file_path |-> secure_filename(file.filename),
                     mime_type |-> IF file.mimetype # ""
                                   THEN file.mimetype
                                   ELSE guess_mimetype(file.filename),
                     file_data |-> file.data,
                     uploaded_at |-> clock]
       IN  IF stage = "read"
           THEN /\ firm_proofs' = rollback(firm_proofs, firm_proofs)
                /\ UNCHANGED seq
           ELSE /\ id <= MaxId
                /\ Room(1)
                /\ firm_proofs' = rollback(firm_proofs, With(firm_proofs, id, proof))
                /\ seq' = [seq EXCEPT !.firm_proofs = id]
    /\ resp' = Response("upload_firm_proof", 500, "Internal server error")
    /\ UNCHANGED <<firm_images, docs_vars, work_vars, env_vars, other_vars>>

\* A unique index on user_code that refuses nothing.
NoUniqueViolation(user_code) == FALSE

\* FirmProof.user_code is unique=True: the INSERT of a second row for a
\* user_code raises IntegrityError.
UniqueViolation(user_code) == ProofsOf(user_code) # {}

\* POST /firm-proof when requests overlap: first the request up to and
\* including the duplicate check ...
upload_firm_proof_query(slot, user_code, file) ==
    /\ slot \notin DOMAIN uploading
    /\ Truthy(user_code)
    /\ file.present
    /\ Strip(file.filename, Whitespace) # <<>>
    /\ IF ProofsOf(user_code) # {}
       THEN /\ resp' = Response("upload_firm_proof", 400,
                                "Proof already uploaded for this firm")
            /\ UNCHANGED uploading
       ELSE /\ uploading' = With(uploading, slot,
                                 [user_code |-> user_code, file |-> file])
            /\ UNCHANGED resp
    /\ UNCHANGED <<docs_vars, work_vars, firm_vars, other_vars, seq, images_schema,
                   clock, inflight>>

\* ... and later db.session.add(proof); db.session.commit() and the
\* response.  The INSERT takes its id from the sequence before the unique
\* index is checked; a violation ends in the rollback of the except branch.
upload_firm_proof_commit(slot) ==
    /\ slot \in DOMAIN uploading
    /\ LET r == uploading[slot]
           id == seq.firm_proofs + 1
           proof == [user_code |-> r.user_code,
                     original_filename |-> r.file.filename,
                     file_path |-> secure_filename(r.file.filename),
                     mime_type |-> IF r.file.mimetype # ""
                                   THEN r.file.mimetype
                                   ELSE guess_mimetype(r.file.filename),
                     file_data |-> r.file.data,
                     uploaded_at |-> clock]
       IN  /\ id <= MaxId
           /\ seq' = [seq EXCEPT !.firm_proofs = id]
           /\ IF UniqueViolation(r.user_code)
              THEN /\ firm_proofs' = rollback(firm_proofs, With(firm_proofs, id, proof))
                   /\ resp' = Response("upload_firm_proof", 500, "Internal server error")
              ELSE /\ Room(1)
                   /\ firm_proofs' = With(firm_proofs, id, proof)
                   /\ resp' = [JsonId("upload_firm_proof", 201, id) EXCEPT
                                 !.file_url = FirmProofUrl(id),
                                 !.rows = (id :> ProofMeta(id, proof))]
    /\ uploading' = Without(uploading, slot)
    /\ UNCHANGED <<firm_images, docs_vars, work_vars, other_vars, images_schema,
                   clock, inflight>>

\* GET /firm-proof/<user_code>: the responses the handler may give (.first()).
GetFirmProofResponses(user_code) ==
    IF ProofsOf(user_code) = {}
    THEN {Response("get_firm_proof", 404, "Proof not found")}
    ELSE {[JsonId("get_firm_proof", 200, i) EXCEPT
              !.file_url = FirmProofUrl(i),
              !.rows = (i :> ProofMeta(i, firm_proofs[i]))] :
             i \in ProofsOf(user_code)}

get_firm_proof(user_code) ==
    /\ resp' \in GetFirmProofResponses(user_code)
    /\ UNCHANGED <<docs_vars, work_vars, firm_vars, seq, env_vars, other_vars>>

\* GET /serve-firm-proof/<proof_id>?download=...
ServeFirmProofResponse(proof_id, download) ==
    IF proof_id \notin DOMAIN firm_proofs
    THEN Response("serve_firm_proof", 404, "Proof not found")
    ELSE LET proof == firm_proofs[proof_id] IN
         send_file("serve_firm_proof", proof.file_data,
                   IF proof.mime_type # None /\ proof.mime_type # ""
                   THEN proof.mime_type
                   ELSE guess_mimetype(proof.original_filename),
                   download,
                   IF Truthy(proof.original_filename)
                   THEN proof.original_filename ELSE proof.file_path)

serve_firm_proof(proof_id, download) ==
    /\ resp' = ServeFirmProofResponse(proof_id, download)
    /\ UNCHANGED <<docs_vars, work_vars, firm_vars, seq, env_vars, other_vars>>

\* PUT /firm-proof/<proof_id>
update_firm_proof(proof_id, file) ==
    /\ IF proof_id \notin DOMAIN firm_proofs
       THEN /\ resp' = Response("update_firm_proof", 404, "Proof not found")
            /\ UNCHANGED firm_proofs
       ELSE IF ~file.present
       THEN /\ resp' = Response("update_firm_proof", 400, "No file uploaded")
            /\ UNCHANGED firm_proofs
       ELSE IF Strip(file.filename, Whitespace) = <<>>
       THEN /\ resp' = Response("update_firm_proof", 400, "Filename missing")
            /\ UNCHANGED firm_proofs
       ELSE LET proof == [firm_proofs[proof_id] EXCEPT
                            !.original_filename = file.filename,
                            !.file_path = secure_filename(file.filename),
                            !.mime_type = IF file.mimetype # ""
                                          THEN file.mimetype
                                          ELSE guess_mimetype(file.filename),
                            !.file_data = file.data,
                            !.uploaded_at = clock]
            IN  /\ firm_proofs' = [firm_proofs EXCEPT ![proof_id] = proof]
                /\ resp' = [JsonId("update_firm_proof", 200, proof_id) EXCEPT
                              !.rows = (proof_id :> ProofMeta(proof_id, proof))]
    /\ UNCHANGED <<firm_images, docs_vars, work_vars, seq, env_vars, other_vars>>

\* DELETE /firm-proof/<proof_id>
delete_firm_proof(proof_id) ==
    /\ IF proof_id \notin DOMAIN firm_proofs
       THEN /\ resp' = Response("delete_firm_proof", 404, "Proof not found")
            /\ UNCHANGED firm_proofs
       ELSE /\ firm_proofs' = Without(firm_proofs, proof_id)
            /\ resp' = Response("delete_firm_proof", 200, None)
    /\ UNCHANGED <<firm_images, docs_vars, work_vars, seq, env_vars, other_vars>>

(***************************************************************************)
(* Jobs                                                                    *)
(***************************************************************************)
\* `if file:` on a werkzeug FileStorage: the part is there and has a name.
FileGiven(file) == file.present /\ file.filename # <<>>

\* POST /api/jobs.  Job has the columns title, description, file_name,
\* file_data, created_at and updated_at; file_path, mime_type and
\* uploaded_at are set on the Python object only and are not stored.
create_job(title, description, file) ==
    /\ IF ~Truthy(title)
       THEN /\ resp' = Response("create_job", 400, "Title is required")
            /\ UNCHANGED <<jobs, seq>>
       ELSE LET id == seq.jobs + 1
                job == [title |-> title,
                        description |-> description,
                        file_name |-> IF FileGiven(file) THEN file.filename ELSE NoStr,
                        file_data |-> IF FileGiven(file) THEN file.data ELSE NoBytes,
                        created_at |-> clock,
                        updated_at |-> clock]
            IN  /\ id <= MaxId
                /\ Room(1)
                /\ jobs' = With(jobs, id, job)
                /\ seq' = [seq EXCEPT !.jobs = id]
                /\ resp' = JsonId("create_job", 201, id)
    /\ UNCHANGED <<docs_vars, work_vars, firm_vars, users, env_vars>>

\* GET /api/jobs/<job_id>/download.  The Job loaded by get_or_404 has the
\* mapped columns only: reading job.mime_type raises AttributeError, which
\* the handler does not catch, and Flask answers 500.
DownloadJobFileResponse(job_id) ==
    IF job_id \notin DOMAIN jobs
    THEN Response("download_job_file", 404, "Not Found")
    ELSE IF ~TruthyBytes(jobs[job_id].file_data)
    THEN Response("download_job_file", 404, "No file uploaded")
    ELSE Response("download_job_file", 500, "AttributeError")

download_job_file(job_id) ==
    /\ resp' = DownloadJobFileResponse(job_id)
    /\ UNCHANGED <<docs_vars, work_vars, firm_vars, other_vars, seq, env_vars>>

\* PUT /api/jobs/<job_id>.  title and description are NoStr when the form
\* does not hold them.
update_job(job_id, title, description, file) ==
    /\ IF job_id \notin DOMAIN jobs
       THEN /\ resp' = Response("update_job", 404, "Not Found")
            /\ UNCHANGED jobs
       ELSE LET old == jobs[job_id]
                new == [old EXCEPT
                          !.title = IF title # NoStr THEN title ELSE @,
                          !.description = IF description # NoStr THEN description ELSE @,
                          !.file_name = IF FileGiven(file) THEN file.filename ELSE @,
                          !.file_data = IF FileGiven(file) THEN file.data ELSE @]
            IN  /\ jobs' = [jobs EXCEPT ![job_id] =
                              IF new = old THEN old ELSE [new EXCEPT !.updated_at = clock]]
                /\ resp' = JsonId("update_job", 200, job_id)
    /\ UNCHANGED <<docs_vars, work_vars, firm_vars, users, seq, env_vars>>

\* DELETE /api/jobs/<job_id>
delete_job(job_id) ==
    /\ IF job_id \notin DOMAIN jobs
       THEN /\ resp' = Response("delete_job", 404, "Not Found")
            /\ UNCHANGED jobs
       ELSE /\ jobs' = Without(jobs, job_id)
            /\ resp' = Response("delete_job", 200, None)
    /\ UNCHANGED <<docs_vars, work_vars, firm_vars, users, seq, env_vars>>

(***************************************************************************)
(* Profile pictures (raw SQL through a connection named conn)              *)
(***************************************************************************)
\* The module defines no name conn: conn.cursor() raises NameError inside
\* the try of each handler, and the except branch answers 500.
\* GET /profile-picture/<user_id>
get_profile_picture(user_id) ==
    /\ resp' = Response("get_profile_picture", 500, "NameError")
    /\ UNCHANGED <<docs_vars, work_vars, firm_vars, other_vars, seq, env_vars>>

\* POST and PUT /profile-picture/<user_id>
upload_profile_picture(user_id, image) ==
    /\ IF ~image.present
       THEN resp' = Response("upload_profile_picture", 400, "No image uploaded")
       ELSE IF image.data = <<>>
       THEN resp' = Response("upload_profile_picture", 400, "Empty file")
       ELSE resp' = Response("upload_profile_picture", 500, "NameError")
    /\ UNCHANGED <<docs_vars, work_vars, firm_vars, other_vars, seq, env_vars>>

\* DELETE /profile-picture/<user_id>
delete_profile_picture(user_id) ==
    /\ resp' = Response("delete_profile_picture", 500, "NameError")
    /\ UNCHANGED <<docs_vars, work_vars, firm_vars, other_vars, seq, env_vars>>

(***************************************************************************)
(* Requests.                                                               *)
(***************************************************************************)
Ids == 1..MaxId

(***************************************************************************)
(* The CV and ID-document endpoints, for one user.                         *)
(***************************************************************************)
DocUsers == {NoStr, U1}
DocFiles ==
    {NoFile, FilePart(NameTxt, "", <<>>), FilePart(NameTxt, "", B1),
     FilePart(NameUnsafe, "", B2)}

NextDocs ==
    \/ \E u \in DocUsers, f \in DocFiles : upload_cv(u, f)
    \/ \E i \in Ids, f \in DocFiles : update_cv(i, f)
    \/ \E i \in Ids : delete_cv(i)
    \/ \E i \in Ids : serve_cv(i)
    \/ \E u \in DocUsers, f \in DocFiles : upload_id_doc(u, f)
    \/ \E i \in Ids, f \in DocFiles : update_id_doc(i, f)
    \/ \E i \in Ids : delete_id_doc(i)
    \/ \E i \in Ids : serve_id(i)

SpecDocs == Init /\ [][NextDocs]_vars

(***************************************************************************)
(* The firm-image endpoints, for an ordinary user code and for ".." sent   *)
(* as the user code.                                                       *)
(***************************************************************************)
Image1 == <<"i", "m", "a", "g", "e", "_", "1", ".", "j", "p", "g">>
Image2 == <<"i", "m", "a", "g", "e", "_", "2", ".", "j", "p", "g">>

ImageUsers == {NoStr, U1, DotDot}
ImageLists ==
    {<<>>, <<FilePart(NameTxt, "", B1)>>, <<FilePart(NameTxt, "", B2)>>,
     <<FilePart(NameTxt, "", B1), FilePart(NameTxt, "", B2)>>}
ImageNames == {Image1, Image2, DotDot}

NextImages ==
    \/ \E u \in ImageUsers, l \in ImageLists : upload_images(u, l)
    \/ \E u \in ImageUsers \ {NoStr} : get_images(u)
    \/ \E u \in ImageUsers \ {NoStr}, n \in ImageNames : serve_image(u, n)

SpecImages == Init /\ [][NextImages]_vars

(***************************************************************************)
(* The assignment and submission endpoints, for one assignment id and two  *)
(* students, one request at a time.                                        *)
(***************************************************************************)
A1 == <<"a", "1">>
A2 == <<"a", "2">>
L1 == <<"l", "1">>
Title == <<"t">>
Deadline == <<"d">>

CreateForms ==
    {[id |-> A1, lecture_id |-> L1, title |-> Title, deadline_iso |-> Deadline,
      description |-> NoStr],
     [id |-> A1, lecture_id |-> L1, title |-> NoStr, deadline_iso |-> Deadline,
      description |-> NoStr]}
UpdateForms ==
    {[title |-> NoStr, description |-> NoStr, deadline_iso |-> NoStr, status |-> s] :
        s \in {None, "closed"}}
WorkUsers == {NoStr, U1, U2}
WorkFiles ==
    {NoFile, FilePart(NameTxt, "", <<>>), FilePart(NameTxt, "", B1),
     FilePart(NameTxt, "", B2), FilePart(NameUnsafe, "", B1)}

NextWork ==
    \/ \E form \in CreateForms, f \in WorkFiles : create_assignment(form, f)
    \/ \E form \in UpdateForms, f \in WorkFiles : update_assignment(A1, form, f)
    \/ delete_assignment(A1)
    \/ list_assignments(NoStr)
    \/ serve_assignment_file(A1)
    \/ \E u \in WorkUsers, f \in WorkFiles : update_submission(A1, u, f, NoStr)
    \/ list_submissions_for_assignment(A1)
    \/ \E i \in Ids : serve_submission_file(i)
    \/ \E a \in {A1, A2}, i \in Ids : delete_submission(a, i)

SpecWork == Init /\ [][NextWork]_vars

(***************************************************************************)
(* Creating, replacing, deleting and fetching CVs, ID documents, firm      *)
(* proofs and assignments.                                                 *)
(***************************************************************************)
StoredFiles == {NoFile, FilePart(NameTxt, "", B1)}
StoredForm ==
    [id |-> A1, lecture_id |-> L1, title |-> Title, deadline_iso |-> Deadline,
     description |-> NoStr]
KeepForm ==
    [title |-> NoStr, description |-> NoStr, deadline_iso |-> NoStr, status |-> None]

NextStored ==
    \/ \E f \in StoredFiles : upload_cv(U1, f)
    \/ \E i \in Ids, f \in StoredFiles : update_cv(i, f)
    \/ \E i \in Ids : delete_cv(i)
    \/ \E i \in Ids : serve_cv(i)
    \/ \E i \in Ids : view_cv(i)
    \/ \E f \in StoredFiles : upload_id_doc(U1, f)
    \/ \E i \in Ids, f \in StoredFiles : update_id_doc(i, f)
    \/ \E i \in Ids : delete_id_doc(i)
    \/ \E i \in Ids : serve_id(i)
    \/ \E i \in Ids : view_id(i)
    \/ \E f \in StoredFiles : upload_firm_proof(U1, f)
    \/ \E i \in Ids, f \in StoredFiles : update_firm_proof(i, f)
    \/ \E i \in Ids : delete_firm_proof(i)
    \/ \E i \in Ids, download \in BOOLEAN : serve_firm_proof(i, download)
    \/ \E f \in StoredFiles : create_assignment(StoredForm, f)
    \/ \E f \in StoredFiles : update_assignment(A1, KeepForm, f)
    \/ delete_assignment(A1)
    \/ serve_assignment_file(A1)

SpecStored == Init /\ [][NextStored]_vars

(***************************************************************************)
(* update_submission requests of one student for one assignment that       *)
(* overlap: each runs its query, and commits later.                        *)
(***************************************************************************)
Slots == 1..MaxInflight
ConcFiles ==
    {FilePart(NameTxt, "", B1), FilePart(NameTxt, "", B2), FilePart(NamePdf, "", B1)}

NextConc ==
    \/ \E slot \in Slots, f \in ConcFiles :
          update_submission_query(slot, A1, U1, f, NoStr)
    \/ \E slot \in Slots : update_submission_commit(slot)
    \/ \E i \in Ids : serve_submission_file(i)

SpecConc == Init /\ [][NextConc]_vars

(***************************************************************************)
(* The endpoints scoped to an owner, for two owners.                       *)
(***************************************************************************)
Owners == {U1, U2}
OwnerImages == {<<FilePart(NameTxt, "", B1)>>, <<FilePart(NameTxt, "", B2)>>}
OwnerFiles == {NoFile, FilePart(NameTxt, "", B1), FilePart(NameTxt, "", B2)}

NextOwners ==
    \/ \E u \in Owners, l \in OwnerImages : upload_images(u, l)
    \/ \E u \in Owners : get_images(u)
    \/ \E u \in Owners : serve_image(u, Image1)
    \/ \E u \in Owners, f \in OwnerFiles : upload_firm_proof(u, f)
    \/ \E u \in Owners : get_firm_proof(u)
    \/ \E u \in Owners, f \in OwnerFiles : update_submission(A1, u, f, NoStr)

SpecOwners == Init /\ [][NextOwners]_vars

(***************************************************************************)
(* Properties.                                                             *)
(***************************************************************************)

\* C1: store/fetch round trip.  Right after an upload_cv (upload_id_doc)
\* that answered 201 for a file with bytes b, serve_cv (serve_id) on the
\* returned id answers 200 with exactly b; and what serve_cv (serve_id)
\* answers for a stored id changes only in a step that updates or deletes
\* that very id, so the answer is still b after any requests on other ids.
C1_RoundTrip ==
    [][ /\ resp'.op = "upload_cv" /\ resp'.status = 201 =>
              \A u \in DocUsers, f \in DocFiles, i \in Ids :
                  upload_cv(u, f) /\ resp'.id = i =>
                      /\ ServeCvResponse(i)'.status = 200
                      /\ ServeCvResponse(i)'.data = f.data
        /\ resp'.op = "upload_id_doc" /\ resp'.status = 201 =>
              \A u \in DocUsers, f \in DocFiles, i \in Ids :
                  upload_id_doc(u, f) /\ resp'.id = i =>
                      /\ ServeIdResponse(i)'.status = 200
                      /\ ServeIdResponse(i)'.data = f.data
        /\ \A i \in DOMAIN user_cv :
              ServeCvResponse(i)' # ServeCvResponse(i)
              => delete_cv(i) \/ \E f \in DocFiles : update_cv(i, f)
        /\ \A i \in DOMAIN user_id_doc :
              ServeIdResponse(i)' # ServeIdResponse(i)
              => delete_id_doc(i) \/ \E f \in DocFiles : update_id_doc(i, f)
      ]_vars

\* An empty CV is served back while another CV is stored beside it.
C1_Witness ==
    /\ resp.op = "serve_cv"
    /\ resp.status = 200
    /\ resp.data = <<>>
    /\ Cardinality(DOMAIN user_cv) = 2

\* C2: two upload_images requests of one owner give distinct handles, and
\* every stored image is served under its own handle.  No two firm_images
\* rows of one user_code carry the same file_path, and serve_image with a
\* row's user_code and the file name of its file_path answers 200 with that
\* row's bytes, whichever row LIMIT 1 picks.
C2_DistinctHandles ==
    /\ \A i, j \in DOMAIN firm_images :
          i # j /\ firm_images[i].user_code = firm_images[j].user_code
          => firm_images[i].file_path # firm_images[j].file_path
    /\ \A i \in DOMAIN firm_images :
          \A r \in ServeImageResponses(firm_images[i].user_code,
                                       basename(firm_images[i].file_path)) :
              r.status = 200 /\ r.data = firm_images[i].image_data

\* C3: a read by a handle with a ".." segment is refused with a client
\* error and hands out no stored bytes.  Every response serve_image may
\* give to a request whose user_code or filename segment is ".." has a 4xx
\* status and no body bytes.
C3_TraversalRefused ==
    \A u \in ImageUsers \ {NoStr}, n \in ImageNames :
        (u = DotDot \/ n = DotDot) =>
            \A r \in ServeImageResponses(u, n) :
                r.status \in 400..499 /\ r.data = NoBytes

\* C4: every handle the metadata exposes resolves to retrievable bytes.
\* Each submission that list_submissions_for_assignment, and each assignment
\* that list_assignments, reports with a file_url is answered by
\* serve_submission_file / serve_assignment_file with 200 and the stored
\* bytes, whatever the payload.
C4_ExposedHandlesResolve ==
    /\ \A i \in DOMAIN ListSubmissionsResponse(A1).rows :
          ListSubmissionsResponse(A1).rows[i].file_url # NoUrl =>
              /\ ServeSubmissionFileResponse(i).status = 200
              /\ ServeSubmissionFileResponse(i).data = submissions[i].file_data
    /\ \A a \in DOMAIN ListAssignmentsResponse(NoStr).rows :
          ListAssignmentsResponse(NoStr).rows[a].file_url # NoUrl =>
              /\ ServeAssignmentFileResponse(a).status = 200
              /\ ServeAssignmentFileResponse(a).data = assignments[a].file_data

\* C5: an artifact is Present or Absent, never half of one.  In every
\* Assignment and Submission row a non-empty filename comes with stored bytes
\* (possibly an empty payload), and non-empty bytes come with a non-empty
\* filename.
C5_PresentOrAbsent ==
    /\ \A a \in DOMAIN assignments :
          /\ Truthy(assignments[a].file_filename) => assignments[a].file_data # NoBytes
          /\ TruthyBytes(assignments[a].file_data) => Truthy(assignments[a].file_filename)
    /\ \A i \in DOMAIN submissions :
          /\ Truthy(submissions[i].filename) => submissions[i].file_data # NoBytes
          /\ TruthyBytes(submissions[i].file_data) => Truthy(submissions[i].filename)

\* C7: replace resolves to the new bytes.  When update_submission answers
\* 200 to a request that carries a named file, for a student who already has
\* a submission for the assignment, serve_submission_file on the returned id
\* then answers 200 with the bytes of that request.
C7_ReplaceResolvesToNew ==
    [][ resp'.op = "update_submission" /\ resp'.status = 200 =>
            \A u \in WorkUsers \ {NoStr}, f \in WorkFiles \ {NoFile}, i \in Ids :
                /\ SubmissionsOf(A1, u) # {}
                /\ resp'.id = i
                /\ update_submission(A1, u, f, NoStr)
                => /\ ServeSubmissionFileResponse(i)'.status = 200
                   /\ ServeSubmissionFileResponse(i)'.data = f.data
      ]_vars

\* C8: replace mutates the record of its natural key.  An update_submission
\* for a student who has a row for the assignment leaves the set of rows as
\* it is and returns the id of that row; for a student without one it adds
\* exactly one row, the one whose id it returns; and there is never more than
\* one row per (assignment_id, user_code).
C8_ReplaceKeepsRecord ==
    /\ [](\A u \in WorkUsers : Cardinality(SubmissionsOf(A1, u)) <= 1)
    /\ [][ resp'.op = "update_submission" /\ resp'.status = 200 =>
              \A u \in WorkUsers \ {NoStr} :
                  (\E f \in WorkFiles : update_submission(A1, u, f, NoStr)) =>
                      IF SubmissionsOf(A1, u) # {}
                      THEN /\ DOMAIN submissions' = DOMAIN submissions
                           /\ resp'.id \in SubmissionsOf(A1, u)
                      ELSE /\ resp'.id \notin DOMAIN submissions
                           /\ DOMAIN submissions' = DOMAIN submissions \cup {resp'.id}
                           /\ SubmissionsOf(A1, u)' = {resp'.id}
         ]_vars

\* The first student's submission is replaced after the second student's
\* was stored.
C8_Witness ==
    /\ resp.op = "update_submission"
    /\ resp.status = 200
    /\ resp.id = 1
    /\ DOMAIN submissions = {1, 2}
    /\ submissions[1].file_data = B2
    /\ submissions[1].user_code # submissions[2].user_code

\* C6: delete then fetch yields NotFound.  A delete_cv, delete_id_doc,
\* delete_firm_proof or delete_assignment that answers 200 removes the row,
\* bytes and metadata together; for an id without a row every serve and view
\* request answers 404; and an id gets a row only by a request that creates
\* an artifact (upload_cv, upload_id_doc, upload_firm_proof,
\* create_assignment), never by an update.
C6_DeleteThenNotFound ==
    /\ [](/\ \A i \in Ids \ DOMAIN user_cv :
              ServeCvResponse(i).status = 404 /\ ViewCvResponse(i).status = 404
          /\ \A i \in Ids \ DOMAIN user_id_doc :
              ServeIdResponse(i).status = 404 /\ ViewIdResponse(i).status = 404
          /\ \A i \in Ids \ DOMAIN firm_proofs, download \in BOOLEAN :
              ServeFirmProofResponse(i, download).status = 404
          /\ A1 \notin DOMAIN assignments =>
              ServeAssignmentFileResponse(A1).status = 404)
    /\ [][ /\ resp'.status = 200 =>
               /\ \A i \in DOMAIN user_cv : delete_cv(i) => i \notin DOMAIN user_cv'
               /\ \A i \in DOMAIN user_id_doc :
                     delete_id_doc(i) => i \notin DOMAIN user_id_doc'
               /\ \A i \in DOMAIN firm_proofs :
                     delete_firm_proof(i) => i \notin DOMAIN firm_proofs'
               /\ A1 \in DOMAIN assignments /\ delete_assignment(A1)
                     => A1 \notin DOMAIN assignments'
           /\ \A i \in DOMAIN user_cv' \ DOMAIN user_cv :
                 resp'.op = "upload_cv" /\ resp'.status = 201 /\ resp'.id = i
           /\ \A i \in DOMAIN user_id_doc' \ DOMAIN user_id_doc :
                 resp'.op = "upload_id_doc" /\ resp'.status = 201 /\ resp'.id = i
           /\ \A i \in DOMAIN firm_proofs' \ DOMAIN firm_proofs :
                 resp'.op = "upload_firm_proof" /\ resp'.status = 201 /\ resp'.id = i
           /\ \A a \in DOMAIN assignments' \ DOMAIN assignments :
                 resp'.op = "create_assignment" /\ resp'.status = 201 /\ resp'.id = a
       ]_vars

\* A firm proof was deleted and a fetch of its id has answered 404, while
\* the firm's next proof is stored under a new id.
C6_Witness ==
    /\ resp.op = "serve_firm_proof"
    /\ resp.status = 404
    /\ seq.firm_proofs = 2
    /\ DOMAIN firm_proofs = {2}

\* C9: replace is serialized per logical record.  Once no update_submission
\* is in flight, the student has at most one Submission row for the
\* assignment, and the filename and the bytes of that row are those of one
\* and the same request.
C9_ReplaceSerialized ==
    inflight = <<>> =>
        /\ Cardinality(SubmissionsOf(A1, U1)) <= 1
        /\ \A i \in SubmissionsOf(A1, U1) :
              \E f \in ConcFiles :
                  /\ submissions[i].filename = safe_filename(f)
                  /\ submissions[i].file_data = f.data

\* C10: owner partitioning.  For every owner u: each URL get_images(u)
\* lists is built from a firm_images row of u; the bytes serve_image(u, ...)
\* sends are those of a firm_images row of u; the proof get_firm_proof(u)
\* describes is a firm_proofs row of u; and an update_submission with
\* user_code u leaves every Submission row of another owner, and the images
\* and proofs, as they are, the row it adds being one of u.
C10_OwnerPartitioning ==
    /\ [](\A u \in Owners :
            /\ \A i \in DOMAIN GetImagesResponse(u).rows :
                  /\ firm_images[i].user_code = u
                  /\ GetImagesResponse(u).rows[i] = ImageUrl(u, firm_images[i].file_path)
            /\ \A r \in ServeImageResponses(u, Image1) :
                  r.status = 200 =>
                      \E i \in DOMAIN firm_images :
                          /\ firm_images[i].user_code = u
                          /\ r.data = firm_images[i].image_data
            /\ \A r \in GetFirmProofResponses(u) :
                  r.status = 200 =>
                      /\ firm_proofs[r.id].user_code = u
                      /\ r.rows = (r.id :> ProofMeta(r.id, firm_proofs[r.id])))
    /\ [][ resp'.op = "update_submission" =>
              \A u \in Owners :
                  (\E f \in OwnerFiles : update_submission(A1, u, f, NoStr)) =>
                      /\ \A i \in DOMAIN submissions :
                            submissions[i].user_code # u =>
                                /\ i \in DOMAIN submissions'
                                /\ submissions'[i] = submissions[i]
                      /\ \A i \in DOMAIN submissions' \ DOMAIN submissions :
                            submissions'[i].user_code = u
                      /\ UNCHANGED <<firm_images, firm_proofs>>
       ]_vars

\* Both owners have stored an image under the same file name, with
\* different bytes, and one of them has been served.
C10_Witness ==
    /\ resp.op = "serve_image"
    /\ resp.status = 200
    /\ \E i, j \in DOMAIN firm_images :
          /\ firm_images[i].user_code = U1
          /\ firm_images[j].user_code = U2
          /\ firm_images[i].image_data # firm_images[j].image_data

\* C11: sanitization never yields an empty name.  The filename stored with
\* every accepted CV and ID document is non-empty.
C11_StoredNameNonEmpty ==
    /\ \A i \in DOMAIN user_cv : Truthy(user_cv[i].filename)
    /\ \A i \in DOMAIN user_id_doc : Truthy(user_id_doc[i].filename)

\* C12: an assignment id is never reused.  Whenever a record enters the
\* assignments table, its id has not identified any earlier assignment,
\* deleted ones included.
C12_IdsNeverReused ==
    [][\A a \in DOMAIN assignments' \ DOMAIN assignments : a \notin issued]_vars

\* C13: every handle has the form <owner_key>/<stored_name>.  The file_path
\* recorded with a firm proof starts with the owner's user_code followed by
\* a slash.
C13_HandleUnderOwnerKey ==
    \A i \in DOMAIN firm_proofs :
        LET path == firm_proofs[i].file_path
            key  == firm_proofs[i].user_code
        IN  /\ Len(path) > Len(key) + 1
            /\ SubSeq(path, 1, Len(key)) = key
            /\ path[Len(key) + 1] = "/"

\* C14: invalid input is rejected before anything is stored.  A submission
\* request that carries no file is answered with 400 and leaves the
\* submissions table as it was.
C14_NoFileRejected ==
    [][\A u \in WorkUsers :
          (resp'.op = "update_submission" /\ update_submission(A1, u, NoFile, NoStr))
              => /\ resp'.status = 400
                 /\ submissions' = submissions]_vars

(***************************************************************************)
(* Uploads and replacements that may raise part-way.                       *)
(***************************************************************************)
Stages == {"read", "commit"}
FaultFiles == {NoFile, FilePart(NameTxt, "", B1), FilePart(NamePdf, "", B2)}
FaultImages ==
    {<<FilePart(NameTxt, "", B1)>>,
     <<FilePart(NameTxt, "", B1), FilePart(NameTxt, "", B2)>>}

NextFaults ==
    \/ \E f \in FaultFiles : upload_cv(U1, f)
    \/ \E f \in FaultFiles, st \in Stages : upload_cv_error(U1, f, st)
    \/ \E i \in Ids, f \in FaultFiles : update_cv(i, f)
    \/ \E i \in Ids, f \in FaultFiles, st \in Stages : update_cv_error(i, f, st)
    \/ \E u \in {U1, U2}, f \in FaultFiles : upload_firm_proof(u, f)
    \/ \E u \in {U1, U2}, f \in FaultFiles, st \in Stages :
          upload_firm_proof_error(u, f, st)
    \/ \E l \in FaultImages : upload_images(U1, l)
    \/ \E l \in FaultImages, k \in 1..3 : upload_images_error(U1, l, k)

SpecFaults == Init /\ [][NextFaults]_vars

\* C15: a failed upload commits nothing.  A request to upload_cv, update_cv,
\* upload_firm_proof or upload_images that is answered with a server error
\* leaves every table as it was, and upload_images adds either one row per
\* image of the request or no row.
C15_FailedUploadCommitsNothing ==
    [][/\ (resp'.status = 500 /\ resp'.op \in {"upload_cv", "update_cv",
                                               "upload_firm_proof", "upload_images"})
            => UNCHANGED <<user_cv, user_id_doc, assignments, submissions,
                           firm_images, firm_proofs>>
       /\ resp'.op = "upload_images"
            => \/ firm_images' = firm_images
               \/ /\ resp'.status = 200
                  /\ Cardinality(DOMAIN firm_images')
                        = Cardinality(DOMAIN firm_images) + Len(resp'.file_paths)]_vars

\* An upload of images has failed after rows were inserted in its
\* transaction, next to rows stored by an earlier upload.
C15_Witness ==
    /\ resp.status = 500
    /\ resp.op = "upload_images"
    /\ images_schema = "sql"
    /\ seq.firm_images > Cardinality(DOMAIN firm_images)
    /\ firm_images # <<>>

(***************************************************************************)
(* The firm proof endpoints, for two firms, as time passes; one upload     *)
(* declares a content type of its own.                                     *)
(***************************************************************************)
Zip == "application/zip"
ProofUsers == {U1, U2}
ProofFiles == {NoFile, FilePart(NameTxt, "", B1), FilePart(NameTxt, Zip, B2)}

NextProofs ==
    \/ Tick
    \/ \E u \in ProofUsers, f \in ProofFiles : upload_firm_proof(u, f)
    \/ \E i \in Ids, f \in ProofFiles : update_firm_proof(i, f)
    \/ \E i \in Ids : delete_firm_proof(i)
    \/ \E u \in ProofUsers : get_firm_proof(u)
    \/ \E i \in Ids, download \in BOOLEAN : serve_firm_proof(i, download)

SpecProofs == Init /\ [][NextProofs]_vars

\* C16: a store never overwrites another artifact.  upload_firm_proof for a
\* user_code that has a proof answers 400, "Proof already uploaded for this
\* firm" when the request carries a named file, and changes no proof; a
\* stored proof changes or disappears only in an update_firm_proof or a
\* delete_firm_proof of its id.
C16_NoImplicitOverwrite ==
    [][/\ \A u \in ProofUsers, f \in ProofFiles :
             (/\ resp'.op = "upload_firm_proof"
              /\ \E i \in DOMAIN firm_proofs : firm_proofs[i].user_code = u
              /\ upload_firm_proof(u, f))
                 => /\ resp'.status = 400
                    /\ f.present => resp'.error = "Proof already uploaded for this firm"
                    /\ firm_proofs' = firm_proofs
       /\ \A i \in DOMAIN firm_proofs :
             (i \notin DOMAIN firm_proofs' \/ firm_proofs'[i] # firm_proofs[i])
                 => \/ \E f \in ProofFiles : update_firm_proof(i, f)
                    \/ delete_firm_proof(i)]_vars

\* A second upload for a firm that has a proof has been refused.
C16_Witness ==
    /\ resp.op = "upload_firm_proof"
    /\ resp.error = "Proof already uploaded for this firm"
    /\ \E i \in DOMAIN firm_proofs : firm_proofs[i].file_data = B1

\* C17: disposition follows the list of safely viewable types.  A firm proof
\* is sent inline only when the mime type of the response is one of
\* viewable_types.
C17_InlineOnlyViewable ==
    (resp.op = "serve_firm_proof" /\ resp.status = 200 /\ ~resp.as_attachment)
        => resp.mimetype \in viewable_types

\* C18: the timestamp written when a record is created is immutable.  As
\* long as a firm proof is stored, its uploaded_at keeps its value.
C18_UploadedAtImmutable ==
    [][\A i \in DOMAIN firm_proofs \cap DOMAIN firm_proofs' :
          firm_proofs'[i].uploaded_at = firm_proofs[i].uploaded_at]_vars

\* C19: the mime type of a served artifact is inferred from the extension of
\* its stored name.  A firm proof is served with the type guess_mimetype
\* gives for the name it is served under.
C19_MimeFromStoredName ==
    (resp.op = "serve_firm_proof" /\ resp.status = 200)
        => resp.mimetype = guess_mimetype(resp.download_name)

\* C20: delete_submission removes a submission only when the submission
\* exists, belongs to the assignment of the URL, and that assignment exists
\* and is open.  Otherwise it answers 404, or 400 for a closed assignment,
\* and leaves the table unchanged; a submission leaves the table only while
\* its assignment exists and is open.
C20_DeleteOnlyWhenOpen ==
    [][/\ \A a \in {A1, A2}, i \in Ids :
             (resp'.op = "delete_submission" /\ delete_submission(a, i))
                 => IF /\ i \in DOMAIN submissions
                       /\ submissions[i].assignment_id = a
                       /\ a \in DOMAIN assignments
                    THEN IF assignments[a].status = "open"
                         THEN /\ resp'.status = 200
                              /\ submissions' = Without(submissions, i)
                         ELSE /\ resp'.status = 400
                              /\ submissions' = submissions
                    ELSE /\ resp'.status = 404
                         /\ submissions' = submissions
       /\ \A i \in DOMAIN submissions \ DOMAIN submissions' :
             /\ submissions[i].assignment_id \in DOMAIN assignments
             /\ assignments[submissions[i].assignment_id].status = "open"]_vars

\* The deletion of a stored submission of a closed assignment has been
\* refused.
C20_Witness ==
    /\ resp.op = "delete_submission"
    /\ resp.status = 400
    /\ \E i \in DOMAIN submissions : TruthyBytes(submissions[i].file_data)

(***************************************************************************)
(* upload_firm_proof requests of two firms that overlap: each runs its     *)
(* duplicate check, and commits later.                                     *)
(***************************************************************************)
RaceFiles == {FilePart(NameTxt, "", B1), FilePart(NamePdf, "", B2)}

NextRace ==
    \/ \E slot \in Slots, u \in ProofUsers, f \in RaceFiles :
          upload_firm_proof_query(slot, u, f)
    \/ \E slot \in Slots : upload_firm_proof_commit(slot)
    \/ \E i \in Ids : delete_firm_proof(i)
    \/ \E u \in ProofUsers : get_firm_proof(u)

SpecRace == Init /\ [][NextRace]_vars

\* C21: at most one FirmProof row per user_code, also when uploads for one
\* user_code overlap.  The commit of an upload whose firm has got a proof in
\* the meantime is answered with an error and changes no proof; the commit
\* of an upload whose firm has none stores it.
C21_OneProofPerFirm ==
    /\ [](\A i, j \in DOMAIN firm_proofs :
             firm_proofs[i].user_code = firm_proofs[j].user_code => i = j)
    /\ [][\A slot \in DOMAIN uploading \ DOMAIN uploading' :
             IF \E i \in DOMAIN firm_proofs :
                   firm_proofs[i].user_code = uploading[slot].user_code
             THEN /\ resp'.status = 500
                  /\ firm_proofs' = firm_proofs
             ELSE /\ resp'.status = 201
                  /\ resp'.id \in DOMAIN firm_proofs' \ DOMAIN firm_proofs
                  /\ firm_proofs'[resp'.id].file_data = uploading[slot].file.data
                  /\ \A i \in DOMAIN firm_proofs : firm_proofs'[i] = firm_proofs[i]]_vars

\* Two uploads for one firm have overlapped: the first to commit is stored,
\* the second has been answered with an error.
C21_Witness ==
    /\ resp.op = "upload_firm_proof"
    /\ resp.status = 500
    /\ uploading = <<>>
    /\ \E i \in DOMAIN firm_proofs : firm_proofs[i].user_code = U1

\* C22: every Submission row's assignment_id refers to an existing
\* Assignment row.
C22_SubmissionHasAssignment ==
    \A i \in DOMAIN submissions : submissions[i].assignment_id \in DOMAIN assignments

\* C23: the bytes serve_image returns are determined by (user_code,
\* filename) alone.  In every state a request has one possible response.
C23_ServeImageDetermined ==
    \A u \in ImageUsers \ {NoStr}, n \in ImageNames :
        Cardinality(ServeImageResponses(u, n)) = 1

(***************************************************************************)
(* The job routes and the profile picture routes.                          *)
(***************************************************************************)
JobTitles == {NoStr, Title}
JobFiles == {NoFile, FilePart(NameTxt, "", B1), FilePart(NamePdf, "", B2)}

NextJobs ==
    \/ Tick
    \/ \E t \in JobTitles, f \in JobFiles : create_job(t, NoStr, f)
    \/ \E i \in Ids, t \in JobTitles, f \in JobFiles : update_job(i, t, NoStr, f)
    \/ \E i \in Ids : delete_job(i)
    \/ \E i \in Ids : download_job_file(i)
    \/ \E f \in JobFiles : upload_profile_picture(U1, f)
    \/ get_profile_picture(U1)
    \/ delete_profile_picture(U1)

SpecJobs == Init /\ [][NextJobs]_vars

\* C24: the file of a job can be downloaded.  For every stored job that has
\* file bytes, download_job_file answers 200 with exactly these bytes, as an
\* attachment named with the original filename.
C24_JobFileDownloads ==
    \A i \in DOMAIN jobs :
        TruthyBytes(jobs[i].file_data)
            => /\ DownloadJobFileResponse(i).status = 200
               /\ DownloadJobFileResponse(i).data = jobs[i].file_data
               /\ DownloadJobFileResponse(i).as_attachment
               /\ DownloadJobFileResponse(i).download_name = jobs[i].file_name

\* C25: upload_profile_picture with a non-empty image for an existing user
\* succeeds with 201.
C25_PictureUploadSucceeds ==
    [][\A u \in DOMAIN users, f \in JobFiles :
          (/\ f.present
           /\ f.data # <<>>
           /\ resp'.op = "upload_profile_picture"
           /\ upload_profile_picture(u, f))
              => resp'.status = 201]_vars

(***************************************************************************)
(* Updates of two assignments and of the submissions of two students, with *)
(* and without a file, supplying one text field or none.                   *)
(***************************************************************************)
Title2 == <<"t", "2">>
Descr == <<"d", "e">>
EditIds == {A1, A2}
EditCreateForms == {[StoredForm EXCEPT !.id = a] : a \in EditIds}
EditForms ==
    {KeepForm, [KeepForm EXCEPT !.title = Title2],
     [KeepForm EXCEPT !.description = Descr], [KeepForm EXCEPT !.status = "closed"]}
EditFiles == {NoFile, FilePart(NamePdf, "", B2)}
EditUsers == {U1, U2}
EditDescriptions == {NoStr, Descr}

NextUpdates ==
    \/ \E form \in EditCreateForms : create_assignment(form, FilePart(NameTxt, "", B1))
    \/ \E a \in EditIds, form \in EditForms, f \in EditFiles :
          update_assignment(a, form, f)
    \/ \E u \in EditUsers, f \in EditFiles, d \in EditDescriptions :
          update_submission(A1, u, f, d)

SpecUpdates == Init /\ [][NextUpdates]_vars

\* C26: updates change only what the request supplies.  update_assignment
\* and update_submission without a file leave the filename and the bytes of
\* the record as they were, a text field the request does not supply keeps
\* its value, and every other record stays as it was.
C26_UpdateOnlySupplied ==
    [][/\ resp'.op = "update_assignment" =>
             \A a \in EditIds \cap DOMAIN assignments, form \in EditForms, f \in EditFiles :
                update_assignment(a, form, f)
                   => /\ f = NoFile =>
                            /\ assignments'[a].file_filename = assignments[a].file_filename
                            /\ assignments'[a].file_data = assignments[a].file_data
                      /\ form.title = NoStr => assignments'[a].title = assignments[a].title
                      /\ form.description = NoStr =>
                            assignments'[a].description = assignments[a].description
                      /\ form.deadline_iso = NoStr =>
                            assignments'[a].deadline_iso = assignments[a].deadline_iso
                      /\ form.status = None =>
                            assignments'[a].status = assignments[a].status
                      /\ \A b \in DOMAIN assignments \ {a} :
                            assignments'[b] = assignments[b]
                      /\ DOMAIN assignments' = DOMAIN assignments
                      /\ submissions' = submissions
       /\ resp'.op = "update_submission" =>
             \A u \in EditUsers, f \in EditFiles, d \in EditDescriptions :
                update_submission(A1, u, f, d)
                   => /\ assignments' = assignments
                      /\ \A i \in DOMAIN submissions :
                            /\ i \in DOMAIN submissions'
                            /\ IF submissions[i].user_code = u
                               THEN /\ f = NoFile =>
                                         /\ submissions'[i].filename
                                               = submissions[i].filename
                                         /\ submissions'[i].file_data
                                               = submissions[i].file_data
                                    /\ d = NoStr =>
                                         submissions'[i].description
                                            = submissions[i].description
                               ELSE submissions'[i] = submissions[i]]_vars

\* An assignment created with a file has got a new title by an update
\* without a file and still has the file, and a submission stored with a
\* file has got a description by an update without a file and still has
\* the file.
C26_Witness ==
    /\ resp.op = "update_submission"
    /\ resp.status = 200
    /\ \E a \in DOMAIN assignments :
          assignments[a].title = Title2 /\ assignments[a].file_data = B1
    /\ \E i \in DOMAIN submissions :
          submissions[i].description = Descr /\ submissions[i].file_data = B2

====
